---- MODULE Spec2Model ----
(***************************************************************************)
(* Model of the staged commit engine of commit-bot.js: the classifier and  *)
(* the planner (phase1Planning), the review (phase2Review), the daily      *)
(* execution (phase3Execution) and the closeout (phase4Finish), together   *)
(* with the durable artifacts they read and write in the target            *)
(* repository (.commit-plan.json, .commit-state.json, PREVIEW.md, the      *)
(* working tree, the index and the history); and of the wrong-branch       *)
(* command of git-oops, which moves the commits of the current branch to   *)
(* a new branch under a safety tag.                                        *)
(***************************************************************************)
EXTENDS Integers, Sequences, FiniteSets, TLC

----------------------------------------------------------------------------
(* Bounds of the model *)

MaxFiles == 3
MaxPlanFiles == 3
MaxDays == 2
MaxCommitsPerDay == 2
MaxFilesPerCommitCfg == 2
MaxRewords == 1
MaxReplans == 1
MaxReplanFiles == 2

----------------------------------------------------------------------------
(* Small helpers *)

Min(a, b) == IF a < b THEN a ELSE b

Range(s) == {s[i] : i \in 1..Len(s)}

RECURSIVE SumLens(_)
SumLens(ss) == IF Len(ss) = 0 THEN 0 ELSE Len(Head(ss)) + SumLens(Tail(ss))

RECURSIVE Flatten(_)
Flatten(ss) == IF Len(ss) = 0 THEN <<>> ELSE Head(ss) \o Flatten(Tail(ss))

(* Math.ceil(a / b) for a >= 0, b >= 1 *)
CeilDiv(a, b) == (a + b - 1) \div b

----------------------------------------------------------------------------
(* FileClassifier and CommitPlanner: phase1Planning *)

(* The markers the classifier tests on a file's base name and directory. *)
Markers == {"scaffold", "build", "test", "docs", "asset", "skeleton"}

(* A mutant of the chain: the skeleton markers are tested before the test
   markers. *)
CategorizeSkeletonFirst(markers) ==
  IF "scaffold" \in markers THEN "scaffold"
  ELSE IF "build" \in markers THEN "build"
  ELSE IF "skeleton" \in markers THEN "skeleton"
  ELSE IF "test" \in markers THEN "test"
  ELSE IF "docs" \in markers THEN "docs"
  ELSE IF "asset" \in markers THEN "asset"
  ELSE "feature"

(* The if / else-if chain that fills categorizedFiles: first match wins. *)
Categorize(markers) ==
  IF "scaffold" \in markers THEN "scaffold"
  ELSE IF "build" \in markers THEN "build"
  ELSE IF "test" \in markers THEN "test"
  ELSE IF "docs" \in markers THEN "docs"
  ELSE IF "asset" \in markers THEN "asset"
  ELSE IF "skeleton" \in markers THEN "skeleton"
  ELSE "feature"

(* A mutant of ordering: tests are queued before features. *)
OrderingTestsFirst ==
  <<"scaffold", "build", "skeleton", "test", "feature", "docs", "asset">>

ordering ==
  <<"scaffold", "build", "skeleton", "feature", "test", "docs", "asset">>

(* categorizedFiles[category]: the files of a category, in scan order. *)
CategorizedFiles(files, category) ==
  SelectSeq([i \in 1..Len(files) |-> [file |-> i, category |-> Categorize(files[i])]],
            LAMBDA e : e.category = category)

(* fileQueue: the categories' files concatenated in the fixed ordering. *)
FileQueue(files) ==
  Flatten([k \in 1..Len(ordering) |-> CategorizedFiles(files, ordering[k])])

(* A mutant of filesPerCommit: the quotient is rounded down. *)
FilesPerCommitFloor(queueLen, plannedCommits) == queueLen \div plannedCommits

(* Math.ceil(fileQueue.length / plannedCommits) *)
FilesPerCommit(queueLen, plannedCommits) == CeilDiv(queueLen, plannedCommits)

(* config.MAX_FILES_PER_COMMIT || filesPerCommit; 0 stands for undefined. *)
MaxFilesOf(maxCfg, filesPerCommit) ==
  IF maxCfg # 0 THEN maxCfg ELSE filesPerCommit

(* A mutant of the inner loop: a commit also ends where the category changes. *)
CommitFilesOneCategory(queue, cur, maxFiles) ==
  LET upto == Min(cur + maxFiles, Len(queue))
      same == {j \in (cur + 1)..upto :
                 \A h \in (cur + 1)..j : queue[h].category = queue[cur + 1].category}
  IN SubSeq(queue, cur + 1, cur + Cardinality(same))

(* The inner for loop: up to maxFiles entries from currentFileIndex on. *)
CommitFiles(queue, cur, maxFiles) ==
  SubSeq(queue, cur + 1, Min(cur + maxFiles, Len(queue)))

CommitType(category) ==
  CASE category = "scaffold" -> "chore"
    [] category = "build" -> "build"
    [] category = "skeleton" -> "feat"
    [] category = "feature" -> "feat"
    [] category = "test" -> "test"
    [] category = "docs" -> "docs"
    [] category = "asset" -> "chore"
    [] OTHER -> "feat"

(* A mutant of the id: the index is counted from zero. *)
CommitIdFromZero(day, index) == <<day, index - 1>>

(* The id string d{day}-c{index}; the format is injective on (day, index). *)
CommitId(day, index) == <<day, index>>

(* The commit record pushed on dayCommits. *)
MakeCommit(day, commitIndex, commitFiles) ==
  LET primaryCategory == commitFiles[1].category
      type == CommitType(primaryCategory)
  IN [id |-> CommitId(day, commitIndex),
      type |-> type,
      message |-> [type |-> type, scope |-> commitFiles[1].file, reworded |-> 0],
      files |-> [j \in 1..Len(commitFiles) |-> commitFiles[j].file],
      category |-> primaryCategory]

(* The commitIndex loop of one day. *)
RECURSIVE DayCommits(_, _, _, _, _, _)
DayCommits(queue, day, commitIndex, cur, commitsPerDay, maxFiles) ==
  IF commitIndex > commitsPerDay \/ cur >= Len(queue) THEN <<>>
  ELSE LET commitFiles == CommitFiles(queue, cur, maxFiles)
       IN IF Len(commitFiles) = 0 THEN <<>>
          ELSE <<MakeCommit(day, commitIndex, commitFiles)>>
               \o DayCommits(queue, day, commitIndex + 1, cur + Len(commitFiles),
                             commitsPerDay, maxFiles)

(* The day loop: a day with no commit is not pushed on days. *)
RECURSIVE BuildDays(_, _, _, _, _, _)
BuildDays(queue, day, cur, totalDays, commitsPerDay, maxFiles) ==
  IF day > totalDays THEN <<>>
  ELSE LET dayCommits == DayCommits(queue, day, 1, cur, commitsPerDay, maxFiles)
           used == SumLens([j \in 1..Len(dayCommits) |-> dayCommits[j].files])
       IN (IF Len(dayCommits) > 0
           THEN <<[day |-> day, commits |-> dayCommits]>>
           ELSE <<>>)
          \o BuildDays(queue, day + 1, cur + used, totalDays, commitsPerDay, maxFiles)

(* A mutant of the loops: one commit a day, whatever commitsPerDay is. *)
PlanDaysOneADay(files, totalDays, commitsPerDay, maxCfg) ==
  LET queue == FileQueue(files)
      plannedCommits == totalDays * commitsPerDay
      filesPerCommit == FilesPerCommit(Len(queue), plannedCommits)
  IN BuildDays(queue, 1, 0, totalDays, 1,
               MaxFilesOf(maxCfg, filesPerCommit))

(* The plan of the scanned files: the queue cut into the days' commits *)
PlanDays(files, totalDays, commitsPerDay, maxCfg) ==
  LET queue == FileQueue(files)
      plannedCommits == totalDays * commitsPerDay
      filesPerCommit == FilesPerCommit(Len(queue), plannedCommits)
  IN BuildDays(queue, 1, 0, totalDays, commitsPerDay,
               MaxFilesOf(maxCfg, filesPerCommit))

(* A mutant of planning: the plan is written as approved. *)
PlanDataApproved(files, totalDays, commitsPerDay, maxCfg) ==
  [days |-> PlanDays(files, totalDays, commitsPerDay, maxCfg),
   approved |-> TRUE]

(* planData as written to .commit-plan.json: the fields the engine reads
   back (days, approved); the others are written for display only. *)
PlanData(files, totalDays, commitsPerDay, maxCfg) ==
  [days |-> PlanDays(files, totalDays, commitsPerDay, maxCfg),
   approved |-> FALSE]

(* stateData as written to .commit-state.json by planning, and the default
   of phase3Execution when the file is absent *)
FreshState ==
  [completed |-> <<>>, next |-> [day |-> 1, index |-> 1], sourceChecksums |-> {}]

(* All commits of a plan in plan order *)
PlanCommits(plan) == Flatten([d \in 1..Len(plan.days) |-> plan.days[d].commits])

(* totalPlannedCommits: days.reduce((sum, day) => sum + day.commits.length, 0) *)
TotalPlannedCommits(plan) ==
  SumLens([d \in 1..Len(plan.days) |-> plan.days[d].commits])

----------------------------------------------------------------------------
(* State *)

VARIABLES
  sourceFiles,      \* the scanned source files, in scan order: each one's markers
  artifactsIgnored, \* the target's ignore rules cover the engine's own files
  targetHasBase,    \* the target repository had a revision before the engine ran
  planFile,         \* .commit-plan.json: <<>> when absent, else <<planData>>
  stateFile,        \* .commit-state.json: <<>> when absent, else <<stateData>>
  preview,          \* PREVIEW.md: <<>> when absent, else <<lines>>
  logExists,        \* .commit-bot.log exists
  wt,               \* the target's working copy of each file: absent, good, bad
  staged,           \* the index: files staged and different from HEAD
  history,          \* the revisions the engine created, oldest first
  pc,               \* position of the running process; "idle" when none runs
  cfg,              \* config of the running invocation
  planData,         \* in-memory plan of the running invocation
  stateData,        \* in-memory state of the running invocation
  curDay,           \* currentDay.day of the running execution
  loopPos,                \* position of the commit loop in currentDay.commits
  filePos,                \* position of the copy / stage loop in commit.files
  commitsProcessed, \* commitsProcessed of the running execution
  exit,             \* how the last invocation ended; "running" while one runs
  skipped,          \* history variable: ids the operator skipped
  attempt,          \* history variable: what was persisted when the commit in
                    \* flight was started
  resumed,          \* history variable: an execution was killed after it had
                    \* completed a commit
  replans,          \* history variable: how often the operator removed the
                    \* plan to have it made again
  wbStep,           \* wrong-branch: position of the command; "idle" before it runs
  options,          \* wrong-branch: the command line's --dry-run and --yes
  uniqueCommits,    \* wrong-branch: the count of upstream..HEAD the command took
  confirmed,        \* wrong-branch: the operator's answer to the confirmation
  repo              \* wrong-branch: the branches, HEAD and tags of the repository

oops == <<wbStep, options, uniqueCommits, confirmed, repo>>
env == <<sourceFiles, artifactsIgnored, targetHasBase, oops>>
ghost == <<skipped, resumed, replans>>
durable == <<planFile, stateFile, preview, logExists, wt, staged, history>>
volatile == <<pc, cfg, planData, stateData, curDay, loopPos, filePos, commitsProcessed>>
vars == <<env, durable, volatile, exit, skipped, attempt, resumed, replans>>

FileIds == 1..Len(sourceFiles)

NoCfg == [totalDays |-> 0, commitsPerDay |-> 0, maxFiles |-> 0,
          reviewMode |-> "", commitMode |-> "",
          nodeMajor |-> 0, sourceDirExists |-> FALSE]

(* wrong-branch: no command has run; the repository is of no interest *)
NoOptions == [dryRun |-> FALSE, yes |-> FALSE]
NoSha == 0
NoRepo == [protected |-> FALSE, upstream |-> NoSha, head |-> "current",
           current |-> NoSha, target |-> NoSha, tags |-> {}]
NoWrongBranch ==
  /\ wbStep = "idle"
  /\ options = NoOptions
  /\ uniqueCommits = 0
  /\ confirmed = "unasked"
  /\ repo = NoRepo

(* versionNumber < 18 *)
MinNodeMajor == 18
NodeMajors == {MinNodeMajor - 1, MinNodeMajor}

(* A mutant of the version check: every runtime passes. *)
NodeTooOldNever(versionNumber) == FALSE

NodeTooOld(versionNumber) == versionNumber < MinNodeMajor
NoPlan == [days |-> <<>>, approved |-> FALSE]
Running == [code |-> 0, step |-> "running"]
NoAttempt == [id |-> <<0, 0>>, state |-> <<>>, revisions |-> 0]

(* The files of HEAD: what the engine's revisions committed. *)
Tracked == UNION {history[r].files : r \in 1..Len(history)}

ArtifactsExist ==
  planFile # <<>> \/ stateFile # <<>> \/ preview # <<>> \/ logExists

(* Files of the working tree that differ from HEAD or are untracked. *)
DirtyFiles ==
  {f \in FileIds : (f \in Tracked /\ wt[f] # "good")
                   \/ (f \notin Tracked /\ wt[f] # "absent")}

(* git status --porcelain prints something *)
TreeDirty ==
  \/ staged # {}
  \/ DirtyFiles # {}
  \/ (ArtifactsExist /\ ~artifactsIgnored)

(* HEAD resolves to a revision *)
HeadExists == targetHasBase \/ Len(history) > 0

(* process.exit, a return of main, or the death of the process *)
Stop(code, step) ==
  /\ pc' = "idle"
  /\ cfg' = NoCfg
  /\ planData' = NoPlan
  /\ stateData' = FreshState
  /\ curDay' = 0
  /\ loopPos' = 0
  /\ filePos' = 0
  /\ commitsProcessed' = 0
  /\ attempt' = NoAttempt
  /\ exit' = [code |-> code, step |-> step]

(* A mutant of halt: the process exits with status zero. *)
haltExitZero(taskId) == Stop(0, taskId)

halt(taskId) == Stop(1, taskId)

----------------------------------------------------------------------------
(* main, planning mode: phase0Setup and phase1Planning *)

MainPlanning ==
  /\ pc = "idle"
  /\ planFile = <<>>
  /\ \E td \in 1..MaxDays, cpd \in 1..MaxCommitsPerDay,
        mx \in 0..MaxFilesPerCommitCfg, rm \in {"ask", "skip"},
        node \in NodeMajors, src \in BOOLEAN :
       \* settings that a refused invocation never reads take one value
       /\ (NodeTooOld(node) \/ ~src) => (td = 1 /\ cpd = 1 /\ mx = 0 /\ rm = "ask")
       /\ cfg' = [totalDays |-> td, commitsPerDay |-> cpd, maxFiles |-> mx,
               reviewMode |-> rm, commitMode |-> "",
               nodeMajor |-> node, sourceDirExists |-> src]
  /\ exit' = Running
  /\ pc' = "S0"
  /\ UNCHANGED <<env, durable, planData, stateData, curDay, loopPos, filePos,
                 commitsProcessed, ghost, attempt>>

Phase0Setup ==
  /\ pc = "S0"
  /\ IF NodeTooOld(cfg.nodeMajor)
     THEN halt("S0.1") /\ UNCHANGED logExists
     ELSE IF ~cfg.sourceDirExists
     THEN halt("S0.2") /\ UNCHANGED logExists
     ELSE IF TreeDirty
     THEN halt("S0.3") /\ UNCHANGED logExists
     ELSE /\ logExists' = TRUE
          /\ pc' = "S1"
          /\ UNCHANGED <<cfg, planData, stateData, curDay, loopPos, filePos,
                         commitsProcessed, exit, attempt>>
  /\ UNCHANGED <<env, planFile, stateFile, preview, wt, staged, history,
                 ghost>>

Phase1WritePlan ==
  /\ pc = "S1"
  /\ planData' = PlanData(sourceFiles, cfg.totalDays, cfg.commitsPerDay, cfg.maxFiles)
  /\ planFile' = <<planData'>>
  /\ pc' = "S1.6state"
  /\ UNCHANGED <<env, stateFile, preview, logExists, wt, staged, history,
                 cfg, stateData, curDay, loopPos, filePos, commitsProcessed, exit,
                 ghost, attempt>>

Phase1WriteState ==
  /\ pc = "S1.6state"
  /\ stateFile' = <<FreshState>>
  /\ pc' = "S1.6preview"
  /\ UNCHANGED <<env, planFile, preview, logExists, wt, staged, history,
                 cfg, planData, stateData, curDay, loopPos, filePos, commitsProcessed,
                 exit, ghost, attempt>>

(* The lines of PREVIEW.md: one per commit, its id and message. *)
PreviewOf(plan) ==
  LET cs == PlanCommits(plan)
  IN [j \in 1..Len(cs) |-> [id |-> cs[j].id, message |-> cs[j].message]]

Phase1WritePreview ==
  /\ pc = "S1.6preview"
  /\ preview' = <<PreviewOf(planData)>>
  /\ pc' = "S1.7"
  /\ UNCHANGED <<env, planFile, stateFile, logExists, wt, staged, history,
                 cfg, planData, stateData, curDay, loopPos, filePos, commitsProcessed,
                 exit, ghost, attempt>>

Phase1Invite ==
  /\ pc = "S1.7"
  /\ \E reviewChoice \in {"yes", "no"} :
       IF cfg.reviewMode # "skip" /\ reviewChoice = "yes"
       THEN /\ pc' = "S2.2"
            /\ UNCHANGED <<cfg, planData, stateData, curDay, loopPos, filePos,
                           commitsProcessed, exit, attempt>>
       ELSE Stop(0, "planned")
  /\ UNCHANGED <<env, durable, ghost>>

----------------------------------------------------------------------------
(* phase2Review *)

(* A mutant of the test of main: every plan is sent to the review. *)
NeedsReviewAlways(plan) == TRUE

(* if (!planData.approved) *)
NeedsReview(plan) == ~plan.approved

MainReview ==
  /\ pc = "idle"
  /\ planFile # <<>>
  /\ NeedsReview(planFile[1])
  /\ planData' = planFile[1]
  /\ exit' = Running
  /\ pc' = "S2.2"
  /\ UNCHANGED <<env, durable, cfg, stateData, curDay, loopPos, filePos, commitsProcessed,
                 ghost, attempt>>

NewMessage == [type |-> "reworded", scope |-> 0, reworded |-> 1]

(* A mutant of the edit: when the id is found, every commit gets the new
   message. *)
RewordEveryCommit(plan, commitId, newMessage) ==
  [plan EXCEPT !.days =
     [d \in 1..Len(plan.days) |->
        [plan.days[d] EXCEPT !.commits =
           [c \in 1..Len(plan.days[d].commits) |->
              IF \E e \in 1..Len(plan.days) :
                   \E k \in 1..Len(plan.days[e].commits) :
                     plan.days[e].commits[k].id = commitId
              THEN [plan.days[d].commits[c] EXCEPT !.message = newMessage]
              ELSE plan.days[d].commits[c]]]]]

(* The two nested loops of S2.2: the commit whose id is commitId gets the
   new message. *)
Reword(plan, commitId, newMessage) ==
  [plan EXCEPT !.days =
     [d \in 1..Len(plan.days) |->
        [plan.days[d] EXCEPT !.commits =
           [c \in 1..Len(plan.days[d].commits) |->
              IF plan.days[d].commits[c].id = commitId
              THEN [plan.days[d].commits[c] EXCEPT !.message = newMessage]
              ELSE plan.days[d].commits[c]]]]]

NoSuchId == <<0, 0>>

RewordedCount(plan) ==
  Cardinality({c \in DOMAIN PlanCommits(plan) : PlanCommits(plan)[c].message.reworded = 1})

(* The ids the operator types at the reword prompt: those of the first
   MaxRewords commits of the plan, or one that names no commit. *)
RewordTargets(plan) ==
  {PlanCommits(plan)[c].id : c \in 1..Min(MaxRewords, Len(PlanCommits(plan)))}
    \cup {NoSuchId}

ReviewEdit ==
  /\ pc = "S2.2"
  /\ \E editChoice \in {"1", "2"} :
       \E commitId \in RewordTargets(planData) :
         planData' = IF editChoice = "1"
                     THEN Reword(planData, commitId, NewMessage)
                     ELSE planData
  /\ pc' = "S2.4"
  /\ UNCHANGED <<env, durable, cfg, stateData, curDay, loopPos, filePos, commitsProcessed,
                 exit, ghost, attempt>>

ReviewApply ==
  /\ pc = "S2.4"
  /\ planFile' = <<planData>>
  /\ pc' = "S2.5"
  /\ UNCHANGED <<env, stateFile, preview, logExists, wt, staged, history,
                 cfg, planData, stateData, curDay, loopPos, filePos, commitsProcessed,
                 exit, ghost, attempt>>

ReviewApprove ==
  /\ pc = "S2.5"
  /\ \E approveChoice \in {"yes", "no"} :
       IF approveChoice = "yes"
       THEN /\ planFile' = <<[planData EXCEPT !.approved = TRUE]>>
            /\ Stop(0, "S2.5")
       ELSE /\ UNCHANGED planFile
            /\ Stop(0, "review")
  /\ UNCHANGED <<env, stateFile, preview, logExists, wt, staged, history,
                 ghost>>

----------------------------------------------------------------------------
(* phase3Execution *)

MainExecution ==
  /\ pc = "idle"
  /\ planFile # <<>>
  /\ planFile[1].approved
  /\ ~(stateFile # <<>>
       /\ Len(stateFile[1].completed) >= TotalPlannedCommits(planFile[1]))
  /\ \E cpd \in 1..MaxCommitsPerDay, cm \in {"manual", "auto"},
        node \in NodeMajors :
       \* settings that a refused invocation never reads take one value
       /\ NodeTooOld(node) => (cpd = 1 /\ cm = "manual")
       /\ cfg' = [totalDays |-> 0, commitsPerDay |-> cpd, maxFiles |-> 0,
               reviewMode |-> "", commitMode |-> cm,
               nodeMajor |-> node, sourceDirExists |-> TRUE]
  /\ exit' = Running
  /\ pc' = "S3.0"
  /\ UNCHANGED <<env, durable, planData, stateData, curDay, loopPos, filePos,
                 commitsProcessed, ghost, attempt>>

(* A mutant of the load: the default state is taken although the file exists. *)
LoadStateDefault(file) == FreshState

(* S3.0: the persisted state, or the default when the file is absent *)
LoadState(file) == IF file # <<>> THEN file[1] ELSE FreshState

Phase3Load ==
  /\ pc = "S3.0"
  /\ IF planFile = <<>> \/ ~planFile[1].approved
     THEN halt("S3.0")
     ELSE /\ planData' = planFile[1]
          /\ stateData' = LoadState(stateFile)
          /\ pc' = "S3.1"
          /\ UNCHANGED <<cfg, curDay, loopPos, filePos, commitsProcessed, exit, attempt>>
  /\ UNCHANGED <<env, durable, ghost>>

(* planData.days.find((d) => d.day === day): <<>> when there is none *)
FindDay(plan, day) == SelectSeq(plan.days, LAMBDA d : d.day = day)

CurrentDay == FindDay(planData, curDay)[1]

CurrentCommit == CurrentDay.commits[loopPos]

Phase3Checks ==
  /\ pc = "S3.1"
  /\ IF NodeTooOld(cfg.nodeMajor) \/ TreeDirty
     THEN halt("S3.1")
     ELSE IF FindDay(planData, stateData.next.day) = <<>>
          THEN /\ pc' = "S4"
               /\ UNCHANGED <<cfg, planData, stateData, curDay, loopPos,
                              filePos, commitsProcessed, exit, attempt>>
          ELSE /\ curDay' = stateData.next.day
               /\ loopPos' = 1
               /\ commitsProcessed' = 0
               /\ pc' = "loop"
               /\ UNCHANGED <<cfg, planData, stateData, filePos, exit, attempt>>
  /\ UNCHANGED <<env, durable, ghost>>

(* A mutant of the cursor match: every commit of the day is taken. *)
IsNextExpectedAlways(commit, next) == TRUE

(* commit.id !== `d${stateData.next.day}-c${stateData.next.index}` *)
IsNextExpected(commit, next) == commit.id = CommitId(next.day, next.index)

(* A mutant of the loop head: the daily commit limit is not tested. *)
LoopHeadNoLimit ==
  /\ pc = "loop"
  /\ \E timeUp \in BOOLEAN :
       IF \/ loopPos > Len(CurrentDay.commits)
          \/ timeUp
       THEN /\ pc' = "S3.ED"
            /\ UNCHANGED <<loopPos, filePos, attempt>>
       ELSE IF ~IsNextExpected(CurrentCommit, stateData.next)
            THEN /\ loopPos' = loopPos + 1
                 /\ UNCHANGED <<pc, filePos, attempt>>
            ELSE /\ pc' = "S3.C2"
                 /\ filePos' = 1
                 /\ UNCHANGED loopPos
                 /\ attempt' = [id |-> CurrentCommit.id, state |-> stateFile,
                                revisions |-> Len(history)]
  /\ UNCHANGED <<env, durable, cfg, planData, stateData, curDay,
                 commitsProcessed, exit, ghost>>

(* Head of the for loop over currentDay.commits, up to S3.C1. *)
LoopHead ==
  /\ pc = "loop"
  /\ \E timeUp \in BOOLEAN :
       IF \/ loopPos > Len(CurrentDay.commits)
          \/ timeUp
          \/ commitsProcessed >= cfg.commitsPerDay
       THEN /\ pc' = "S3.ED"
            /\ UNCHANGED <<loopPos, filePos, attempt>>
       ELSE IF ~IsNextExpected(CurrentCommit, stateData.next)
            THEN /\ loopPos' = loopPos + 1
                 /\ UNCHANGED <<pc, filePos, attempt>>
            ELSE /\ pc' = "S3.C2"
                 /\ filePos' = 1
                 /\ UNCHANGED loopPos
                 /\ attempt' = [id |-> CurrentCommit.id, state |-> stateFile,
                                revisions |-> Len(history)]
  /\ UNCHANGED <<env, durable, cfg, planData, stateData, curDay,
                 commitsProcessed, exit, ghost>>

(* S3.C2: fs.copyFileSync of one file; the copy may come out corrupted, and
   the call may throw. *)
CopyFile ==
  /\ pc = "S3.C2"
  /\ \E outcome \in {"good", "bad", "throws"} :
       IF outcome = "throws"
       THEN halt("MAIN") /\ UNCHANGED wt
       ELSE /\ wt' = [wt EXCEPT ![CurrentCommit.files[filePos]] = outcome]
            /\ IF filePos < Len(CurrentCommit.files)
               THEN filePos' = filePos + 1 /\ pc' = pc
               ELSE filePos' = 1 /\ pc' = "S3.C3"
            /\ UNCHANGED <<cfg, planData, stateData, curDay, loopPos,
                           commitsProcessed, exit, attempt>>
  /\ UNCHANGED <<env, planFile, stateFile, preview, logExists, staged, history,
                 ghost>>

(* getFileSha256 of the source file and of its copy: equal contents have
   equal digests, different contents different ones. *)
SourceHash(f) == "good"
TargetHash(f) == wt[f]

(* A mutant of the comparison: every copy passes. *)
HashesMatchAlways(sourceHash, targetHash) == TRUE

HashesMatch(sourceHash, targetHash) == sourceHash = targetHash

(* A mutant of the integrity loop: staging starts without it. *)
VerifyFilesSkipped ==
  /\ pc = "S3.C3"
  /\ stateData' = [stateData EXCEPT !.sourceChecksums =
                      @ \cup Range(CurrentCommit.files)]
  /\ pc' = "S3.C4"
  /\ filePos' = 1
  /\ UNCHANGED <<cfg, planData, curDay, loopPos, commitsProcessed, exit, attempt>>
  /\ UNCHANGED <<env, durable, ghost>>

(* S3.C3: the integrity loop; the first mismatch halts. *)
VerifyFiles ==
  /\ pc = "S3.C3"
  /\ IF \E f \in Range(CurrentCommit.files) : ~HashesMatch(SourceHash(f), TargetHash(f))
     THEN halt("S3.C3")
     ELSE /\ stateData' = [stateData EXCEPT !.sourceChecksums =
                              @ \cup Range(CurrentCommit.files)]
          /\ pc' = "S3.C4"
          /\ filePos' = 1
          /\ UNCHANGED <<cfg, planData, curDay, loopPos, commitsProcessed, exit, attempt>>
  /\ UNCHANGED <<env, durable, ghost>>

(* A mutant of the staging: git add of everything in the working tree. *)
StageFileAll ==
  /\ pc = "S3.C4"
  /\ staged' = staged \cup DirtyFiles
  /\ IF filePos < Len(CurrentCommit.files)
     THEN filePos' = filePos + 1 /\ pc' = pc
     ELSE filePos' = 1 /\ pc' = "S3.C4a"
  /\ UNCHANGED <<cfg, planData, stateData, curDay, loopPos,
                 commitsProcessed, exit, attempt>>
  /\ UNCHANGED <<env, planFile, stateFile, preview, logExists, wt, history,
                 ghost>>

(* S3.C4: git add of one file; the command may fail. *)
StageFile ==
  /\ pc = "S3.C4"
  /\ \E outcome \in {"ok", "throws"} :
       IF outcome = "throws"
       THEN halt("MAIN") /\ UNCHANGED staged
       ELSE /\ LET f == CurrentCommit.files[filePos]
               IN staged' = IF f \in Tracked /\ wt[f] = "good"
                            THEN staged ELSE staged \cup {f}
            /\ IF filePos < Len(CurrentCommit.files)
               THEN filePos' = filePos + 1 /\ pc' = pc
               ELSE filePos' = 1 /\ pc' = "S3.C4a"
            /\ UNCHANGED <<cfg, planData, stateData, curDay, loopPos,
                           commitsProcessed, exit, attempt>>
  /\ UNCHANGED <<env, planFile, stateFile, preview, logExists, wt, history,
                 ghost>>

(* S3.C4a: the manual gate. "skip" runs git reset HEAD, which fails while
   HEAD names no revision. *)
ManualGate ==
  /\ pc = "S3.C4a"
  /\ \E choice \in {"commit", "skip"} :
       IF cfg.commitMode = "manual" /\ choice = "skip"
       THEN IF HeadExists
            THEN /\ staged' = {}
                 /\ pc' = "S3.C4a.skip"
                 /\ UNCHANGED <<cfg, planData, stateData, curDay, loopPos,
                                filePos, commitsProcessed, exit, attempt>>
            ELSE halt("MAIN") /\ UNCHANGED staged
       ELSE /\ pc' = "S3.C5"
            /\ UNCHANGED <<staged, cfg, planData, stateData, curDay, loopPos,
                           filePos, commitsProcessed, exit, attempt>>
  /\ UNCHANGED <<env, planFile, stateFile, preview, logExists, wt, history,
                 ghost>>

(* A mutant of the skip path: the cursor is left where it was. *)
NextAfterSkipStays(next) == next

(* stateData.next.index++ of the skip path *)
NextAfterSkip(next) == [next EXCEPT !.index = @ + 1]

(* The skip path's write of the state and its continue. *)
SkipAdvance ==
  /\ pc = "S3.C4a.skip"
  /\ stateData' = [stateData EXCEPT !.next = NextAfterSkip(@)]
  /\ stateFile' = <<stateData'>>
  /\ skipped' = skipped \cup {CurrentCommit.id}
  /\ UNCHANGED <<resumed, replans>>
  /\ loopPos' = loopPos + 1
  /\ pc' = "loop"
  /\ attempt' = NoAttempt
  /\ UNCHANGED <<env, planFile, preview, logExists, wt, staged, history,
                 cfg, planData, curDay, filePos, commitsProcessed, exit>>

(* S3.C5: git commit. It fails when nothing is staged, and may fail for
   other reasons. A revision holds what the index held. *)
CreateCommit ==
  /\ pc = "S3.C5"
  /\ \E outcome \in {"ok", "throws"} :
       IF outcome = "throws" \/ staged = {}
       THEN halt("MAIN") /\ UNCHANGED <<staged, history>>
       ELSE /\ history' = Append(history, [files |-> staged,
                                           message |-> CurrentCommit.message,
                                           id |-> CurrentCommit.id])
            /\ staged' = {}
            /\ pc' = "S3.C6"
            /\ UNCHANGED <<cfg, planData, stateData, curDay, loopPos, filePos,
                           commitsProcessed, exit, attempt>>
  /\ UNCHANGED <<env, planFile, stateFile, preview, logExists, wt,
                 ghost>>

(* A mutant of the cursor advance: the cursor jumps over a commit. *)
NextAfterCommitJump(next, dayLength) ==
  IF next.index + 2 > dayLength
  THEN [day |-> next.day + 1, index |-> 1]
  ELSE [next EXCEPT !.index = @ + 2]

(* stateData.next.index++ and the roll over to the next day *)
NextAfterCommit(next, dayLength) ==
  IF next.index + 1 > dayLength
  THEN [day |-> next.day + 1, index |-> 1]
  ELSE [next EXCEPT !.index = @ + 1]

(* A mutant of the record: the checksums of the commit's files are left out. *)
CompletedCommitNoChecksums(commit, state, sha) ==
  [id |-> commit.id,
   day |-> state.next.day,
   commitSha |-> sha,
   fileChecksums |-> {}]

(* The completedCommit record of S3.C6 *)
CompletedCommit(commit, state, sha) ==
  [id |-> commit.id,
   day |-> state.next.day,
   commitSha |-> sha,
   fileChecksums |-> Range(commit.files) \cap state.sourceChecksums]

(* S3.C6: record progress, advance the cursor, write the state. *)
RecordProgress ==
  /\ pc = "S3.C6"
  /\ stateData' =
       [stateData EXCEPT
          !.completed = Append(@, CompletedCommit(CurrentCommit, stateData,
                                                  Len(history))),
          !.next = NextAfterCommit(@, Len(CurrentDay.commits))]
  /\ stateFile' = <<stateData'>>
  /\ commitsProcessed' = commitsProcessed + 1
  /\ loopPos' = loopPos + 1
  /\ pc' = "loop"
  /\ attempt' = NoAttempt
  /\ UNCHANGED <<env, planFile, preview, logExists, wt, staged, history,
                 cfg, planData, curDay, filePos, exit, ghost>>

(* S3.ED1 and, when nothing fails, S3.ED2: git push in auto push mode
   (config.PUSH_MODE is read here and nowhere before); the command may fail,
   and the catch block around it reports the step as done. *)
PushAtEndOfDay ==
  /\ pc = "S3.ED"
  /\ \E pushMode \in {"manual", "auto"}, outcome \in {"ok", "throws"} :
       pc' = IF pushMode = "auto" /\ outcome = "throws"
             THEN "S3.ED1.failed"
             ELSE "S4"
  /\ UNCHANGED <<env, durable, cfg, planData, stateData, curDay, loopPos,
                 filePos, commitsProcessed, exit, ghost, attempt>>

(* The catch block of S3.ED1, then S3.ED2: the day is complete;
   phase4Finish follows. *)
EndOfDay ==
  /\ pc = "S3.ED1.failed"
  /\ pc' = "S4"
  /\ UNCHANGED <<env, durable, cfg, planData, stateData, curDay, loopPos,
                 filePos, commitsProcessed, exit, ghost, attempt>>

----------------------------------------------------------------------------
(* phase4Finish *)

MainFinish ==
  /\ pc = "idle"
  /\ planFile # <<>>
  /\ planFile[1].approved
  /\ stateFile # <<>>
  /\ Len(stateFile[1].completed) >= TotalPlannedCommits(planFile[1])
  /\ exit' = Running
  /\ pc' = "S4"
  /\ UNCHANGED <<env, durable, cfg, planData, stateData, curDay, loopPos,
                 filePos, commitsProcessed, ghost, attempt>>

Phase4Finish ==
  /\ pc = "S4"
  /\ IF stateFile = <<>> \/ planFile = <<>>
     THEN halt("S4.1")
     ELSE IF Len(stateFile[1].completed) >= TotalPlannedCommits(planFile[1])
          THEN Stop(0, "S4.3")
          ELSE Stop(0, "progress")
  /\ UNCHANGED <<env, durable, ghost>>

----------------------------------------------------------------------------
(* The environment *)

(* The process is killed: what it held in memory is lost. *)
Kill ==
  /\ pc # "idle"
  /\ Stop(2, "killed")
  /\ resumed' = (resumed \/ (curDay # 0 /\ Len(LoadState(stateFile).completed) > 0))
  /\ UNCHANGED <<env, durable, skipped, replans>>

(* The operator cleans the working tree by hand between two invocations:
   untracked copies are removed, tracked files restored, the index reset. *)
OperatorClean ==
  /\ pc = "idle"
  /\ staged # {} \/ DirtyFiles # {}
  /\ wt' = [f \in FileIds |-> IF f \in Tracked THEN "good" ELSE "absent"]
  /\ staged' = {}
  /\ UNCHANGED <<env, planFile, stateFile, preview, logExists, history,
                 volatile, exit, ghost, attempt>>

(* The persisted state records progress: a completed commit or a cursor
   moved from its first position. *)
HasProgress(state) ==
  Len(state.completed) > 0 \/ state.next # FreshState.next

(* The operator removes .commit-plan.json between two invocations, while
   progress is recorded, to have the plan made again: main plans only while
   that file is absent. *)
OperatorRemovePlan ==
  /\ pc = "idle"
  /\ planFile # <<>>
  /\ stateFile # <<>>
  /\ HasProgress(stateFile[1])
  /\ replans < MaxReplans
  /\ planFile' = <<>>
  /\ replans' = replans + 1
  /\ UNCHANGED <<env, stateFile, preview, logExists, wt, staged, history,
                 volatile, exit, skipped, attempt, resumed>>

----------------------------------------------------------------------------
(* Specifications *)

InitState ==
  /\ planFile = <<>>
  /\ stateFile = <<>>
  /\ preview = <<>>
  /\ logExists = FALSE
  /\ wt = [f \in FileIds |-> "absent"]
  /\ staged = {}
  /\ history = <<>>
  /\ pc = "idle"
  /\ cfg = NoCfg
  /\ planData = NoPlan
  /\ stateData = FreshState
  /\ curDay = 0
  /\ loopPos = 0
  /\ filePos = 0
  /\ commitsProcessed = 0
  /\ exit = [code |-> 0, step |-> "none"]
  /\ skipped = {}
  /\ resumed = FALSE
  /\ replans = 0
  /\ attempt = NoAttempt

(* The engine: the source files are all plain feature files. *)
Init ==
  /\ sourceFiles \in UNION {[1..n -> {{}}] : n \in 1..MaxFiles}
  /\ artifactsIgnored \in BOOLEAN
  /\ targetHasBase \in BOOLEAN
  /\ InitState
  /\ NoWrongBranch

PlanningMode ==
  \/ MainPlanning
  \/ Phase0Setup
  \/ Phase1WritePlan
  \/ Phase1WriteState
  \/ Phase1WritePreview
  \/ Phase1Invite

Review ==
  \/ MainReview
  \/ ReviewEdit
  \/ ReviewApply
  \/ ReviewApprove

Execution ==
  \/ MainExecution
  \/ Phase3Load
  \/ Phase3Checks
  \/ LoopHead
  \/ CopyFile
  \/ VerifyFiles
  \/ StageFile
  \/ ManualGate
  \/ SkipAdvance
  \/ CreateCommit
  \/ RecordProgress
  \/ PushAtEndOfDay
  \/ EndOfDay
  \/ MainFinish
  \/ Phase4Finish

Next == PlanningMode \/ Review \/ Execution \/ Kill \/ OperatorClean

Spec == Init /\ [][Next]_vars

(* The engine and an operator who has the plan made again. *)
InitReplan ==
  /\ sourceFiles \in UNION {[1..n -> {{}}] : n \in 1..MaxReplanFiles}
  /\ artifactsIgnored = TRUE
  /\ targetHasBase = FALSE
  /\ InitState
  /\ NoWrongBranch

SpecReplan == InitReplan /\ [][Next \/ OperatorRemovePlan]_vars

(* The planner alone, over files of every category in every scan order. *)
PlanKinds == {{}} \cup {{m} : m \in Markers}

InitPlan ==
  /\ sourceFiles \in UNION {[1..n -> PlanKinds] : n \in 0..MaxPlanFiles}
  /\ artifactsIgnored = TRUE
  /\ targetHasBase = FALSE
  /\ InitState
  /\ NoWrongBranch

SpecPlan == InitPlan /\ [][PlanningMode]_vars

(* The classifier, which looks at one file at a time: a file that matches
   the markers of any set of categories. *)
InitClassify ==
  /\ sourceFiles \in {<<markers>> : markers \in SUBSET Markers}
  /\ artifactsIgnored = TRUE
  /\ targetHasBase = FALSE
  /\ InitState
  /\ NoWrongBranch

SpecClassify == InitClassify /\ [][PlanningMode]_vars

(* The scenario of the planner: 2 scaffold files, 1 build file and 4 feature
   files, in every scan order. *)
CountOf(files, kind) == Cardinality({j \in DOMAIN files : files[j] = kind})

InitScenario ==
  /\ sourceFiles \in {fs \in [1..7 -> {{}, {"scaffold"}, {"build"}}] :
                        /\ CountOf(fs, {"scaffold"}) = 2
                        /\ CountOf(fs, {"build"}) = 1}
  /\ artifactsIgnored = TRUE
  /\ targetHasBase = FALSE
  /\ InitState
  /\ NoWrongBranch

SpecScenario == InitScenario /\ [][PlanningMode]_vars

(* The planner's chunking, which goes by queue position alone: longer
   queues of scaffold and feature files, in every scan order. *)
MaxChunkFiles == 4

InitChunk ==
  /\ sourceFiles \in UNION {[1..n -> {{}, {"scaffold"}}] : n \in 0..MaxChunkFiles}
  /\ artifactsIgnored = TRUE
  /\ targetHasBase = FALSE
  /\ InitState
  /\ NoWrongBranch

SpecChunk == InitChunk /\ [][PlanningMode]_vars

----------------------------------------------------------------------------
(* git-oops wrong-branch: move the commits of the current branch to a new
   branch and reset the current branch to its upstream *)

MaxUnique == 2
UpstreamSha == 1

engine == <<sourceFiles, artifactsIgnored, targetHasBase, durable, volatile,
            exit, ghost, attempt>>

(* The commit HEAD names: the tip of the checked-out branch *)
HeadSha(r) == IF r.head = "current" THEN r.current ELSE r.target

(* git rev-list --count upstream..HEAD; countCommits answers 0 when git fails *)
countCommits(r, gitFails) == IF gitFails THEN 0 ELSE HeadSha(r) - r.upstream

(* confirm(): --yes answers for the operator *)
confirm(opts, answer) == opts.yes \/ answer

(* A mutant of the operation: the reset comes before the safety tag. *)
OperationResetFirst ==
  <<"createBranch", "switchBack", "resetHard", "createSafetyTag", "switchTarget", "done">>

(* "Perform the operation": the five steps in the order of the code *)
Operation ==
  <<"createSafetyTag", "createBranch", "switchBack", "resetHard", "switchTarget", "done">>

StepAfter(step) ==
  Operation[(CHOOSE j \in 1..(Len(Operation) - 1) : Operation[j] = step) + 1]

WrongBranchStart ==
  /\ wbStep = "idle"
  /\ \E dryRun \in BOOLEAN, yes \in BOOLEAN :
       options' = [dryRun |-> dryRun, yes |-> yes]
  /\ wbStep' = "validate"
  /\ UNCHANGED <<engine, uniqueCommits, confirmed, repo>>

(* checkBranchProtection(currentBranch, !options.yes) and validateUpstream *)
WrongBranchValidate ==
  /\ wbStep = "validate"
  /\ wbStep' = IF (repo.protected /\ ~options.yes) \/ repo.upstream = NoSha
               THEN "threw" ELSE "count"
  /\ UNCHANGED <<engine, options, uniqueCommits, confirmed, repo>>

(* uniqueCommits === 0: "Nothing to move", return *)
WrongBranchCount ==
  /\ wbStep = "count"
  /\ \E gitFails \in BOOLEAN :
       /\ uniqueCommits' = countCommits(repo, gitFails)
       /\ wbStep' = IF uniqueCommits' = 0 THEN "returned" ELSE "target"
  /\ UNCHANGED <<engine, options, confirmed, repo>>

(* git rev-parse --verify targetBranch: success means the branch exists and
   is refused; a failure lets the command go on only when its message
   includes 'unknown revision', any other message is thrown again *)
RevParseMessages == {"unknown revision", "Needed a single revision"}

WrongBranchCheckTarget ==
  /\ wbStep = "target"
  /\ \E message \in RevParseMessages :
       wbStep' = IF repo.target # NoSha \/ message # "unknown revision"
                 THEN "threw" ELSE "dryRun"
  /\ UNCHANGED <<engine, options, uniqueCommits, confirmed, repo>>

(* if (options.dryRun) { ... return; } *)
WrongBranchDryRun ==
  /\ wbStep = "dryRun"
  /\ wbStep' = IF options.dryRun THEN "returned" ELSE "confirm"
  /\ UNCHANGED <<engine, options, uniqueCommits, confirmed, repo>>

(* if (!options.yes) { confirmed = await confirm(...); if (!confirmed) return } *)
WrongBranchConfirm ==
  /\ wbStep = "confirm"
  /\ \E answer \in BOOLEAN :
       /\ confirmed' = IF options.yes THEN "unasked"
                       ELSE IF answer THEN "yes" ELSE "no"
       /\ wbStep' = IF confirm(options, answer) THEN Operation[1] ELSE "returned"
  /\ UNCHANGED <<engine, options, uniqueCommits, repo>>

(* safety.createSafetyTag: git tag -a oops/backup/... HEAD, then git rev-parse
   HEAD for the record of the tag; a failure of either is thrown as a
   ValidationError, the second one after the tag was made *)
CreateSafetyTag ==
  /\ wbStep = "createSafetyTag"
  /\ \E outcome \in {"ok", "tag fails", "rev-parse fails"} :
       /\ repo' = IF outcome = "tag fails" THEN repo
                  ELSE [repo EXCEPT !.tags = @ \cup {HeadSha(repo)}]
       /\ wbStep' = IF outcome = "ok" THEN StepAfter("createSafetyTag") ELSE "threw"
  /\ UNCHANGED <<engine, options, uniqueCommits, confirmed>>

(* git.createBranch(targetBranch): git checkout -b targetBranch *)
CreateBranch ==
  /\ wbStep = "createBranch"
  /\ \E gitFails \in BOOLEAN :
       IF gitFails
       THEN wbStep' = "threw" /\ repo' = repo
       ELSE /\ repo' = [repo EXCEPT !.target = HeadSha(repo), !.head = "target"]
            /\ wbStep' = StepAfter("createBranch")
  /\ UNCHANGED <<engine, options, uniqueCommits, confirmed>>

(* git.switchBranch(currentBranch): git checkout currentBranch *)
SwitchBack ==
  /\ wbStep = "switchBack"
  /\ \E gitFails \in BOOLEAN :
       IF gitFails
       THEN wbStep' = "threw" /\ repo' = repo
       ELSE /\ repo' = [repo EXCEPT !.head = "current"]
            /\ wbStep' = StepAfter("switchBack")
  /\ UNCHANGED <<engine, options, uniqueCommits, confirmed>>

(* git.resetHard(upstream): git reset --hard upstream moves the checked-out
   branch *)
ResetHard ==
  /\ wbStep = "resetHard"
  /\ \E gitFails \in BOOLEAN :
       IF gitFails
       THEN wbStep' = "threw" /\ repo' = repo
       ELSE /\ repo' = IF repo.head = "current"
                       THEN [repo EXCEPT !.current = repo.upstream]
                       ELSE [repo EXCEPT !.target = repo.upstream]
            /\ wbStep' = StepAfter("resetHard")
  /\ UNCHANGED <<engine, options, uniqueCommits, confirmed>>

(* git.switchBranch(targetBranch); a checkout of a branch that does not
   exist fails *)
SwitchTarget ==
  /\ wbStep = "switchTarget"
  /\ \E gitFails \in BOOLEAN :
       IF gitFails \/ repo.target = NoSha
       THEN wbStep' = "threw" /\ repo' = repo
       ELSE /\ repo' = [repo EXCEPT !.head = "target"]
            /\ wbStep' = StepAfter("switchTarget")
  /\ UNCHANGED <<engine, options, uniqueCommits, confirmed>>

WrongBranch ==
  \/ WrongBranchStart
  \/ WrongBranchValidate
  \/ WrongBranchCount
  \/ WrongBranchCheckTarget
  \/ WrongBranchDryRun
  \/ WrongBranchConfirm
  \/ CreateSafetyTag
  \/ CreateBranch
  \/ SwitchBack
  \/ ResetHard
  \/ SwitchTarget

(* The repositories the command is run in: the current branch is ahead of
   its upstream by 0..MaxUnique commits. *)
InitWrongBranch ==
  /\ sourceFiles = <<>>
  /\ artifactsIgnored = TRUE
  /\ targetHasBase = FALSE
  /\ InitState
  /\ wbStep = "idle"
  /\ options = NoOptions
  /\ uniqueCommits = 0
  /\ confirmed = "unasked"
  /\ \E protected \in BOOLEAN, upstream \in {NoSha, UpstreamSha},
        ahead \in 0..MaxUnique, target \in {NoSha, UpstreamSha} :
       repo = [protected |-> protected, upstream |-> upstream, head |-> "current",
               current |-> UpstreamSha + ahead, target |-> target, tags |-> {}]

SpecWrongBranch == InitWrongBranch /\ [][WrongBranch]_vars

----------------------------------------------------------------------------
(* Properties *)

(* The fixed category order, and a category's place in it *)
FixedOrder == <<"scaffold", "build", "skeleton", "feature", "test", "docs", "asset">>
CategoryRank(c) == CHOOSE r \in 1..Len(FixedOrder) : FixedOrder[r] = c
CategoryOf(f) == Categorize(sourceFiles[f])

(* The files of all commits of a plan, concatenated in plan order *)
PlannedFiles(plan) ==
  Flatten([c \in 1..Len(PlanCommits(plan)) |-> PlanCommits(plan)[c].files])

(* C1: the written plan puts every scanned file in exactly one commit: no
   file is in two commits and no file is dropped. *)
C1_Partition ==
  planFile # <<>> =>
    LET pf == PlannedFiles(planFile[1])
    IN \A f \in FileIds : Cardinality({j \in DOMAIN pf : pf[j] = f}) = 1

(* C2: the files of the commits, concatenated in plan order, have categories
   that never go back in the fixed order. *)
C2_Order ==
  planFile # <<>> =>
    LET pf == PlannedFiles(planFile[1])
    IN \A a, b \in DOMAIN pf :
         a < b => CategoryRank(CategoryOf(pf[a])) <= CategoryRank(CategoryOf(pf[b]))

(* A plan of two commits or more whose files were scanned against the
   order: a file of a later category was scanned before one of an earlier. *)
C2_Witness ==
  /\ planFile # <<>>
  /\ Len(PlanCommits(planFile[1])) >= 2
  /\ LET pf == PlannedFiles(planFile[1])
     IN \E a, b \in DOMAIN pf :
          /\ a < b
          /\ pf[a] > pf[b]
          /\ CategoryRank(CategoryOf(pf[a])) < CategoryRank(CategoryOf(pf[b]))

(* The scenario's configuration, just after the plan was written *)
ScenarioPlanned ==
  /\ pc = "S1.6state"
  /\ cfg.totalDays = 2
  /\ cfg.commitsPerDay = 2
  /\ cfg.maxFiles = 2

CategoriesOf(commit) == [j \in 1..Len(commit.files) |-> CategoryOf(commit.files[j])]

(* C3, as stated: 4 commits; slot 1 the 2 scaffold files (chore), slot 2 only
   the build file, slots 3 and 4 the feature files 2 and 2 (feat). *)
C3_Scenario ==
  ScenarioPlanned =>
    LET cs == PlanCommits(planFile[1])
    IN /\ Len(cs) = 4
       /\ CategoriesOf(cs[1]) = <<"scaffold", "scaffold">> /\ cs[1].type = "chore"
       /\ CategoriesOf(cs[2]) = <<"build">>
       /\ CategoriesOf(cs[3]) = <<"feature", "feature">> /\ cs[3].type = "feat"
       /\ CategoriesOf(cs[4]) = <<"feature", "feature">> /\ cs[4].type = "feat"

(* C3, amended: 4 commits; slot 1 the 2 scaffold files (chore), slot 2 the
   build file and the first feature file (build), slot 3 the next 2 feature
   files (feat), slot 4 the last feature file (feat). *)
C3_ScenarioChunks ==
  ScenarioPlanned =>
    LET cs == PlanCommits(planFile[1])
    IN /\ Len(cs) = 4
       /\ [c \in 1..4 |-> cs[c].id] = <<<<1, 1>>, <<1, 2>>, <<2, 1>>, <<2, 2>>>>
       /\ CategoriesOf(cs[1]) = <<"scaffold", "scaffold">> /\ cs[1].type = "chore"
       /\ CategoriesOf(cs[2]) = <<"build", "feature">> /\ cs[2].type = "build"
       /\ CategoriesOf(cs[3]) = <<"feature", "feature">> /\ cs[3].type = "feat"
       /\ CategoriesOf(cs[4]) = <<"feature">> /\ cs[4].type = "feat"
       /\ Range(PlannedFiles(planFile[1])) = FileIds

(* The scenario planned from a scan that met a feature file first and a
   scaffold file last. *)
C3_Witness ==
  /\ ScenarioPlanned
  /\ planFile # <<>>
  /\ CategoryOf(1) = "feature"
  /\ CategoryOf(7) = "scaffold"

(* The (day, index) that follows a commit in the plan *)
Following(plan, id) ==
  IF id[2] < Len(FindDay(plan, id[1])[1].commits)
  THEN [day |-> id[1], index |-> id[2] + 1]
  ELSE [day |-> id[1] + 1, index |-> 1]

(* C4: the write that ends a commit, created or skipped, leaves the persisted
   cursor on the (day, index) that follows the commit in the plan, (day+1, 1)
   after the last commit of a day. *)
C4_CursorMonotonicity ==
  [][(pc \in {"S3.C6", "S3.C4a.skip"} /\ pc' = "loop")
       => stateFile'[1].next = Following(planData, CurrentCommit.id)]_vars

(* The revisions an execution of the whole plan creates *)
PlanRevisions(plan) ==
  LET cs == PlanCommits(plan)
  IN [c \in 1..Len(cs) |-> [files |-> Range(cs[c].files),
                             message |-> cs[c].message,
                             id |-> cs[c].id]]

IsPrefix(s, t) == Len(s) <= Len(t) /\ s = SubSeq(t, 1, Len(s))

PersistedState == LoadState(stateFile)

(* The persisted cursor is behind the last day of the plan. *)
CursorPastEnd ==
  /\ planFile # <<>>
  /\ stateFile # <<>>
  /\ \A d \in DOMAIN planFile[1].days :
       planFile[1].days[d].day < stateFile[1].next.day

(* C5: whatever invocations were killed and resumed, the history is the
   beginning of the history of an uninterrupted execution (the plan's commits
   in plan order, each with its files and message), and it is the whole of it
   once the cursor is behind the plan (no commit skipped by the operator). *)
C5_IdempotentResume ==
  (planFile # <<>> /\ skipped = {}) =>
    /\ IsPrefix(history, PlanRevisions(planFile[1]))
    /\ CursorPastEnd => history = PlanRevisions(planFile[1])

(* A plan of two commits or more finished after an execution was killed with
   a commit completed. *)
C5_Witness ==
  /\ resumed
  /\ skipped = {}
  /\ CursorPastEnd
  /\ Len(history) >= 2
  /\ history = PlanRevisions(planFile[1])

(* C6: a commit with a corrupted copy does not pass S3.C3: the step halts
   the run with exit 1, nothing is staged, no revision is created and the
   persisted state is as it was when the commit was started. *)
C6_IntegrityHalt ==
  [][(/\ pc = "S3.C3"
      /\ \E f \in Range(CurrentCommit.files) : wt[f] # "good"
      /\ exit'.step # "killed")
       => /\ pc' = "idle"
          /\ exit' = [code |-> 1, step |-> "S3.C3"]
          /\ staged = {} /\ staged' = {}
          /\ history' = history /\ Len(history) = attempt.revisions
          /\ stateFile' = stateFile /\ stateFile = attempt.state]_vars

(* A run halted at S3.C3 on a corrupted copy after an earlier commit. *)
C6_Witness ==
  /\ pc = "idle"
  /\ exit = [code |-> 1, step |-> "S3.C3"]
  /\ Len(history) >= 1
  /\ \E f \in FileIds : wt[f] = "bad"

Approved == planFile # <<>> /\ planFile[1].approved

(* C7: the working tree, the index and the history change only under an
   approved plan, and a plan becomes approved only by the answer yes at the
   approval prompt S2.5. *)
C7_ApprovalGate ==
  [][/\ (wt' # wt \/ staged' # staged \/ history' # history) => Approved
     /\ (~Approved /\ Approved') =>
          (pc = "S2.5" /\ exit' = [code |-> 0, step |-> "S2.5"])]_vars

(* A revision created under a plan that a review approved. *)
C7_Witness ==
  /\ Approved
  /\ Len(history) >= 1
  /\ \E f \in FileIds : wt[f] = "good"

IdBefore(a, b) == a[1] < b[1] \/ (a[1] = b[1] /\ a[2] < b[2])

StrictlyIncreasing(ids) ==
  \A a, b \in DOMAIN ids : a < b => IdBefore(ids[a], ids[b])

CompletedIds(state) == [c \in 1..Len(state.completed) |-> state.completed[c].id]

(* C8: revisions and completed entries are in strictly increasing (day,
   index) order, so no commit has two of either, and every plan commit before
   a created one is completed or skipped. *)
C8_StrictPlanOrder ==
  planFile # <<>> =>
    /\ StrictlyIncreasing([r \in 1..Len(history) |-> history[r].id])
    /\ StrictlyIncreasing(CompletedIds(PersistedState))
    /\ \A r \in DOMAIN history :
         \A c \in Range(PlanCommits(planFile[1])) :
           IdBefore(c.id, history[r].id)
             => c.id \in Range(CompletedIds(PersistedState)) \cup skipped

(* Two commits created and recorded in plan order by invocations of which
   one was killed after it had completed a commit. *)
C8_Witness ==
  /\ Len(history) >= 2
  /\ Len(PersistedState.completed) >= 2
  /\ resumed

PlanIds(plan) == {c.id : c \in Range(PlanCommits(plan))}

AtOrAfter(id, next) == ~IdBefore(id, <<next.day, next.index>>)

(* C9, as stated: the cursor is on the first plan commit that is not in
   completed, so completed.length plus the commits at or after the cursor is
   the number of planned commits. *)
C9_CursorAccounting ==
  (planFile # <<>> /\ stateFile # <<>>) =>
    LET st == stateFile[1]
        done == Range(CompletedIds(st))
        rest == {id \in PlanIds(planFile[1]) : AtOrAfter(id, st.next)}
    IN /\ done \cap rest = {}
       /\ done \cup rest = PlanIds(planFile[1])
       /\ Len(st.completed) + Cardinality(rest) = TotalPlannedCommits(planFile[1])

(* C9, amended: every plan commit before the cursor is in completed or was
   skipped by the operator and none at or after it is, so completed.length
   plus the skipped commits plus the commits at or after the cursor is the
   number of planned commits. *)
C9_CursorAccountingWithSkips ==
  (planFile # <<>> /\ stateFile # <<>>) =>
    LET st == stateFile[1]
        done == Range(CompletedIds(st))
        rest == {id \in PlanIds(planFile[1]) : AtOrAfter(id, st.next)}
    IN /\ done \cap skipped = {}
       /\ (done \cup skipped) \cap rest = {}
       /\ done \cup skipped \cup rest = PlanIds(planFile[1])
       /\ Len(st.completed) + Cardinality(skipped) + Cardinality(rest)
            = TotalPlannedCommits(planFile[1])

(* A persisted state with a commit completed and another skipped. *)
C9_Witness ==
  /\ stateFile # <<>>
  /\ Len(stateFile[1].completed) >= 1
  /\ skipped # {}
  /\ pc = "idle"

(* C10: whenever the process was killed, the persisted state records as many
   completed commits as the engine created revisions. *)
C10_CrashSafety ==
  (pc = "idle" /\ exit.step = "killed") =>
    Len(history) = Len(PersistedState.completed)

----------------------------------------------------------------------------
(* The run left the loop over the day's commits on a budget: commits of the
   day were still ahead of loopPos. *)
BudgetEnded ==
  /\ pc \in {"S3.ED", "S3.ED1.failed", "S4"}
  /\ curDay # 0
  /\ loopPos <= Len(CurrentDay.commits)

(* C11: the two budgets are tested only before a commit is started, never
   between its copy and the write of the state; a run that a budget ended
   goes on to the end without halting and exits with status zero, what is
   persisted is the state written after the last finished commit, and a
   commit is only ever started at the persisted cursor. *)
C11_SoftBudget ==
  [][/\ (pc' = "S3.ED" /\ pc # "S3.ED")
          => /\ pc = "loop"
             /\ attempt = NoAttempt
             /\ durable' = durable
     /\ (pc' = "S3.C2" /\ pc = "loop")
          => CurrentCommit.id = CommitId(LoadState(stateFile).next.day,
                                         LoadState(stateFile).next.index)
     /\ (BudgetEnded /\ exit'.step # "killed")
          => /\ LoadState(stateFile) = stateData
             /\ durable' = durable
             /\ pc = "S3.ED" => pc' \in {"S3.ED1.failed", "S4"}
             /\ pc = "S3.ED1.failed" => pc' = "S4"
             /\ pc = "S4" => pc' = "idle" /\ exit'.code = 0]_vars

(* C12: when the operator answers "skip" at the manual gate, the staged
   files are unstaged and no revision is created; the cursor is advanced
   and the new state is written, its completed list unchanged, before the
   next commit is considered; and the skipped commit is never recorded as
   completed afterwards. *)
C12_SkipEffect ==
  /\ [](\A id \in skipped : id \notin Range(CompletedIds(PersistedState)))
  /\ [][/\ (pc = "S3.C4a" /\ pc' # "S3.C5" /\ exit'.step # "killed")
             => /\ pc' = "S3.C4a.skip"
                /\ staged' = {}
                /\ history' = history
                /\ stateFile' = stateFile
        /\ (pc = "S3.C4a.skip" /\ exit'.step # "killed")
             => /\ pc' = "loop"
                /\ staged' = {} /\ history' = history
                /\ stateFile' # <<>>
                /\ stateFile'[1].completed = LoadState(stateFile).completed
                /\ stateFile'[1].next # LoadState(stateFile).next
                /\ IdBefore(CommitId(LoadState(stateFile).next.day,
                                     LoadState(stateFile).next.index),
                            CommitId(stateFile'[1].next.day,
                                     stateFile'[1].next.index))]_vars

(* C13: when the copy of a file, its staging or the creation of the commit
   fails, the run halts with a non-zero exit status, no revision and no
   completed commit is added, and the persisted state is exactly the one
   that was persisted before the commit was attempted. *)
C13_ToolFailure ==
  [][(pc \in {"S3.C2", "S3.C4", "S3.C5"} /\ pc' = "idle" /\ exit'.step # "killed")
       => /\ exit' = [code |-> 1, step |-> "MAIN"]
          /\ history' = history
          /\ Len(history) = attempt.revisions
          /\ stateFile' = stateFile
          /\ stateFile = attempt.state]_vars

(* A tool failed on a commit that follows a recorded one. *)
C13_Witness ==
  /\ pc = "idle"
  /\ exit = [code |-> 1, step |-> "MAIN"]
  /\ staged # {}
  /\ Len(PersistedState.completed) = 1
  /\ Len(history) = 1

(* C14: every failure of a version-control command is fatal to the run: a
   run that stops at git add, git reset, git commit or git push stops with a
   non-zero exit status, and the run never goes on from a failed git push to
   report the step as done and continue to the finish. *)
C14_SubprocessFailureFatal ==
  [][/\ (pc \in {"S3.C4", "S3.C4a", "S3.C5", "S3.ED"} /\ pc' = "idle"
         /\ exit'.step # "killed")
          => exit'.code = 1
     /\ pc = "S3.ED" => pc' # "S3.ED1.failed"]_vars

(* A precondition of the phase the invocation is in does not hold. *)
PreconditionFails ==
  \/ /\ pc = "S0"
     /\ \/ cfg.nodeMajor < MinNodeMajor
        \/ ~cfg.sourceDirExists
        \/ TreeDirty
  \/ /\ pc = "S3.1"
     /\ \/ cfg.nodeMajor < MinNodeMajor
        \/ TreeDirty

(* The invocation was started on a plan that is not approved. *)
UnapprovedInvocation == pc \in {"S2.2", "S2.4", "S2.5"} /\ cfg = NoCfg

(* Nothing is written on the way from the start of an invocation to its
   precondition checks, and a failing check halts with a non-zero exit
   status and writes nothing. *)
PreconditionHalts ==
  /\ (pc' \in {"S0", "S3.0", "S3.1"} /\ pc' # pc) => durable' = durable
  /\ (PreconditionFails /\ exit'.step # "killed")
       => /\ pc' = "idle"
          /\ exit'.code = 1
          /\ durable' = durable

(* C15, as stated: a runtime that is too old, a missing source directory, a
   target working tree with uncommitted changes or an unapproved plan makes
   the invocation halt with a non-zero exit status, having written no plan
   and no state, copied no file and created no revision. *)
C15_PreconditionFatal ==
  [][/\ PreconditionHalts
     /\ (UnapprovedInvocation /\ exit'.step # "killed")
          => /\ durable' = durable
             /\ pc' = "idle" => exit'.code = 1]_vars

(* C15, amended: the first three conditions halt the invocation with
   nothing written; an invocation on an unapproved plan opens the review of
   that plan instead of halting: it may rewrite the plan document, writes no
   state, copies no file, creates no revision and never enters execution. *)
C15_PreconditionFatalOrReview ==
  [][/\ PreconditionHalts
     /\ (pc = "idle" /\ planFile # <<>> /\ ~planFile[1].approved /\ pc' # "idle")
          => pc' = "S2.2" /\ durable' = durable
     /\ (UnapprovedInvocation /\ exit'.step # "killed")
          => /\ pc' \in {"S2.4", "S2.5", "idle"}
             /\ <<stateFile, preview, wt, staged, history>>'
                  = <<stateFile, preview, wt, staged, history>>
             /\ pc' = "idle" => exit'.code = 0]_vars

(* An execution run was refused at its runtime checks after a commit had
   been recorded. *)
C15_Witness ==
  /\ pc = "idle"
  /\ exit = [code |-> 1, step |-> "S3.1"]
  /\ Len(history) >= 1

(* C16: whenever planning runs while a persisted state with a completed
   commit or an advanced cursor exists, the completed list and the cursor of
   that state are preserved. *)
C16_ReplanKeepsProgress ==
  [][(/\ pc \in {"S0", "S1", "S1.6state", "S1.6preview", "S1.7"}
      /\ stateFile # <<>>
      /\ HasProgress(stateFile[1]))
       => /\ stateFile' # <<>>
          /\ stateFile'[1].completed = stateFile[1].completed
          /\ stateFile'[1].next = stateFile[1].next]_vars

(* C17: once an approved plan is persisted, no step of any later invocation
   changes it: the ids, categories, files and messages of its commits, its
   days and its approval stay as they are. *)
C17_ApprovedPlanImmutable ==
  [][(planFile # <<>> /\ planFile[1].approved) => planFile' = planFile]_vars

(* The plan was reworded in review, approved and executed to its end. *)
C17_Witness ==
  /\ pc = "idle"
  /\ exit = [code |-> 0, step |-> "S4.3"]
  /\ planFile # <<>>
  /\ planFile[1].approved
  /\ RewordedCount(planFile[1]) = 1
  /\ Len(PersistedState.completed) = TotalPlannedCommits(planFile[1])

(* C18: between two invocations the preview lists exactly the commit ids
   and messages of the persisted plan, since every write of the plan
   regenerates it. *)
C18_PreviewConsistent ==
  (pc = "idle" /\ planFile # <<>> /\ preview # <<>>)
    => preview[1] = PreviewOf(planFile[1])

ClassifierOrder == <<"scaffold", "build", "test", "docs", "asset", "skeleton">>

(* The earliest category of ClassifierOrder with a marker among markers,
   feature when there is none. *)
FirstMatch(markers) ==
  LET hits == {k \in 1..Len(ClassifierOrder) : ClassifierOrder[k] \in markers}
  IN IF hits = {} THEN "feature"
     ELSE ClassifierOrder[CHOOSE k \in hits : \A h \in hits : k <= h]

(* The categories whose list of categorizedFiles holds file f. *)
CategoriesHolding(f) ==
  {c \in Range(ordering) :
     \E e \in Range(CategorizedFiles(sourceFiles, c)) : e.file = f}

(* C19: every file is put in exactly one category, the first one whose
   marker matches in the order scaffold, build, test, docs, asset, skeleton,
   and feature when none matches; the planner queues the file under that
   category and a commit that starts with the file carries it. *)
C19_ClassifierPrecedence ==
  /\ \A f \in FileIds : CategoriesHolding(f) = {FirstMatch(sourceFiles[f])}
  /\ \A e \in Range(FileQueue(sourceFiles)) : e.category = FirstMatch(sourceFiles[e.file])
  /\ planFile # <<>> =>
       \A c \in Range(PlanCommits(planFile[1])) :
          c.category = FirstMatch(sourceFiles[c.files[1]])

(* A plan was written for a file that is both a test file and named index,
   and it is planned as test. *)
C19_Witness ==
  /\ planFile # <<>>
  /\ \E c \in Range(PlanCommits(planFile[1])) :
       /\ {"test", "skeleton"} \subseteq sourceFiles[c.files[1]]
       /\ sourceFiles[c.files[1]] \cap {"scaffold", "build"} = {}
       /\ c.category = "test"

(* C20: the commit at position c of the day record at position d of a plan
   has the id d{d}-c{c} and that record is day d, so that the days are
   numbered 1..k and the indices of a day 1..m without gaps; the ids are
   pairwise distinct and their (day, index) order is the plan order. *)
C20_CommitIds ==
  planFile # <<>> =>
    LET days == planFile[1].days
        ids == [c \in 1..Len(PlanCommits(planFile[1])) |-> PlanCommits(planFile[1])[c].id]
    IN /\ \A d \in 1..Len(days) :
            /\ days[d].day = d
            /\ Len(days[d].commits) >= 1
            /\ \A c \in 1..Len(days[d].commits) : days[d].commits[c].id = <<d, c>>
       /\ \A a, b \in DOMAIN ids : a # b => ids[a] # ids[b]
       /\ StrictlyIncreasing(ids)

(* A plan of two days, the first with two commits. *)
C20_Witness ==
  /\ planFile # <<>>
  /\ Len(planFile[1].days) = 2
  /\ Len(planFile[1].days[1].commits) = 2

(* C21: wrong-branch makes the safety tag at HEAD before it makes the new
   branch and before it resets the current branch to upstream: a step that
   creates the target branch or moves the current branch away from its tip
   starts from a repository where a tag points at that tip; and a run with
   --dry-run, with no unique commits or with a declined confirmation never
   changes the repository (no tag, no branch, no reset). *)
C21_TagBeforeReset ==
  [][/\ (repo'.target # repo.target \/ repo'.current # repo.current)
          => repo.current \in repo.tags
     /\ (repo'.current # repo.current)
          => repo'.current = repo.upstream /\ repo.target = repo.current
     /\ (options.dryRun \/ uniqueCommits = 0 \/ confirmed = "no")
          => repo' = repo]_vars

C21_Witness ==
  /\ wbStep = "done"
  /\ uniqueCommits > 0
  /\ repo.current = repo.upstream
  /\ repo.target \in repo.tags
  /\ repo.target = repo.upstream + uniqueCommits
  /\ repo.head = "target"

(* Every file of the commit in flight is copied and passed the integrity
   check of this attempt *)
CommitVerified ==
  \A f \in Range(CurrentCommit.files) :
    wt[f] = "good" /\ f \in stateData.sourceChecksums

(* C22: the steps of a commit come in the order copy, verify, stage, (gate),
   create revision, append CompletedCommit and advance, persist: a copy is
   made only while nothing is staged and every completed entry in memory is
   persisted; a file is staged only when every file of the commit is copied
   and verified, and it is a file of the commit; the revision is created
   from verified files while the state on disk is still the one the attempt
   started with; and the state with the new CompletedCommit is written only
   when the revision of that commit is the last of the history, in one write
   with the advanced cursor, before the loop goes on. *)
C22_ProtocolOrder ==
  [][/\ (pc # "idle" /\ wt' # wt)
          => /\ staged = {}
             /\ PersistedState.completed = stateData.completed
             /\ PersistedState.next = stateData.next
             /\ history' = history /\ stateFile' = stateFile
     /\ (staged' \ staged # {})
          => /\ CommitVerified
             /\ (staged' \ staged) \subseteq Range(CurrentCommit.files)
             /\ history' = history /\ stateFile' = stateFile
     /\ (history' # history)
          => /\ CommitVerified
             /\ stateFile' = stateFile
             /\ stateFile = attempt.state
             /\ history' = Append(history, history'[Len(history')])
             /\ history'[Len(history')].id = CurrentCommit.id
     /\ (stateFile # <<>> /\ stateFile' # <<>>
           /\ Len(stateFile'[1].completed) > Len(stateFile[1].completed))
          => /\ history # <<>>
             /\ history[Len(history)].id = CurrentCommit.id
             /\ Len(history) = attempt.revisions + 1
             /\ stateFile'[1].completed[Len(stateFile'[1].completed)].id = CurrentCommit.id
             /\ stateFile'[1].next = NextAfterCommit(stateFile[1].next, Len(CurrentDay.commits))
             /\ stateFile' = <<stateData'>>
             /\ history' = history /\ wt' = wt /\ staged' = staged
             /\ pc' = "loop"]_vars

C22_Witness ==
  /\ pc = "S3.C2"
  /\ cfg.commitMode = "manual"
  /\ Len(history) = 1
  /\ Len(PersistedState.completed) = 1
  /\ skipped = {}

(* The persisted cursor as a commit id *)
CursorId == <<PersistedState.next.day, PersistedState.next.index>>

(* C23: under an approved plan no sequence of invocations and operator
   decisions leaves the persisted cursor on a position that matches no
   commit: the cursor names a commit of the plan or is past the last day,
   so that repeated invocations can move it past the last planned commit. *)
C23_CursorNeverStuck ==
  (Approved /\ stateFile # <<>>) => (CursorId \in PlanIds(planFile[1]) \/ CursorPastEnd)

(* C24: an invocation that comes to Finish announces completion (S4.3,
   "all files committed per plan") exactly when the persisted
   completed.length has reached the number of planned commits, and
   otherwise reports the completed/total progress and ends with status
   zero. *)
C24_FinishGuard ==
  [][(pc = "S4" /\ pc' = "idle" /\ exit'.step # "killed" /\ planFile # <<>>)
       => IF Len(PersistedState.completed) >= TotalPlannedCommits(planFile[1])
          THEN exit' = [code |-> 0, step |-> "S4.3"]
          ELSE exit' = [code |-> 0, step |-> "progress"]]_vars

(* The commit of the persisted plan with the given id *)
PlanCommit(id) == CHOOSE c \in Range(PlanCommits(planFile[1])) : c.id = id

(* C25: every CompletedCommit that is appended carries the id and the day
   of the plan commit in flight, and its fileChecksums has an entry for
   exactly the files of that commit, each the checksum of the source file
   that the integrity check of this attempt found equal to the checksum of
   the copy. *)
C25_AuditRecord ==
  [][(stateFile' # <<>> /\ stateFile' # stateFile
        /\ Len(stateFile'[1].completed) > Len(PersistedState.completed))
       => LET record == stateFile'[1].completed[Len(stateFile'[1].completed)]
          IN /\ record.id = CurrentCommit.id
             /\ record.id \in PlanIds(planFile[1])
             /\ record.day = record.id[1]
             /\ record.day = FindDay(planFile[1], record.id[1])[1].day
             /\ record.fileChecksums = Range(PlanCommit(record.id).files)
             /\ \A f \in record.fileChecksums :
                  /\ f \in stateData.sourceChecksums
                  /\ HashesMatch(SourceHash(f), TargetHash(f))]_vars

C25_Witness ==
  /\ Len(PersistedState.completed) = 2
  /\ PersistedState.completed[2].fileChecksums # {}
  /\ PersistedState.completed[2].id = <<2, 1>>
  /\ resumed

(* The completed list of a state file; empty while the file is absent *)
CompletedOf(file) == IF file = <<>> THEN <<>> ELSE file[1].completed

(* C26: over all execution invocations, with skips, budget exits, halts
   and kills, every write of the state leaves the persisted completed list
   an extension of the one persisted before: the entries it had are still
   there, unchanged and in place, and at most one entry is added at the
   end. *)
C26_AppendOnly ==
  [][/\ IsPrefix(CompletedOf(stateFile), CompletedOf(stateFile'))
     /\ Len(CompletedOf(stateFile')) <= Len(CompletedOf(stateFile)) + 1]_vars

C26_Witness ==
  /\ Len(CompletedOf(stateFile)) = 2
  /\ skipped # {}
  /\ exit.step = "S3.1"

(* C27: the revision created for a plan commit holds exactly the files of
   that commit's files list, and no file that was copied for a skipped
   commit is in the revision of a later commit. *)
C27_StagedSetExact ==
  planFile # <<>> =>
    \A r \in 1..Len(history) :
      /\ history[r].id \in PlanIds(planFile[1])
      /\ history[r].files = Range(PlanCommit(history[r].id).files)
      /\ \A id \in skipped :
           IdBefore(id, history[r].id)
             => history[r].files \cap Range(PlanCommit(id).files) = {}

(* A commit was skipped and a later one created in the same run, while the
   copies made for the skipped commit are still in the working tree. *)
C27_Witness ==
  /\ pc = "loop"
  /\ commitsProcessed = 1
  /\ skipped = {<<1, 1>>}
  /\ Len(history) = 1
  /\ history[1].id = <<1, 2>>
  /\ \A f \in Range(PlanCommit(<<1, 1>>).files) : wt[f] = "good" /\ f \notin Tracked

(* The plan that planning has just written, with the settings it was made
   from still in cfg *)
PlanWritten == pc = "S1.6state" /\ planFile # <<>>

QueueFiles == [j \in 1..Len(FileQueue(sourceFiles)) |-> FileQueue(sourceFiles)[j].file]

(* C28: a plan has no padding: every commit has at least one file and
   every day record at least one commit; the slots are filled day by day
   and index by index from the front of the queue, so every day before the
   last one has exactly commitsPerDay commits, the last one at most that
   many, the days are 1..k with k at most totalDays, and the plan has at
   most totalDays x commitsPerDay commits. *)
C28_NoPadding ==
  PlanWritten =>
    LET days == planFile[1].days
    IN /\ \A d \in 1..Len(days) :
            /\ Len(days[d].commits) >= 1
            /\ Len(days[d].commits) <= cfg.commitsPerDay
            /\ d < Len(days) => Len(days[d].commits) = cfg.commitsPerDay
            /\ days[d].day = d
            /\ \A c \in 1..Len(days[d].commits) :
                 Len(days[d].commits[c].files) >= 1
       /\ Len(days) <= cfg.totalDays
       /\ TotalPlannedCommits(planFile[1]) <= cfg.totalDays * cfg.commitsPerDay
       /\ IsPrefix(PlannedFiles(planFile[1]), QueueFiles)

(* A plan whose last day has a free slot: two commits on day 1, one on day 2. *)
C28_Witness ==
  /\ PlanWritten
  /\ cfg.commitsPerDay = 2
  /\ Len(planFile[1].days) = 2
  /\ Len(planFile[1].days[1].commits) = 2
  /\ Len(planFile[1].days[2].commits) = 1

(* The chunk size the claim names: maxFilesPerCommit when supplied, else the
   least number of files per slot with which the slots hold the queue *)
ChunkSize(n, slots, maxFilesPerCommit) ==
  IF maxFilesPerCommit # 0 THEN maxFilesPerCommit
  ELSE CHOOSE k \in 0..n : k * slots >= n /\ \A j \in 0..(k - 1) : j * slots < n

(* C29: every commit of a plan but the last holds exactly chunkSize files,
   the last at most chunkSize, and commit number c holds the queue's files
   from position (c-1) x chunkSize + 1 on; without maxFilesPerCommit the
   commits hold the whole queue. *)
C29_ChunkSize ==
  PlanWritten =>
    LET cs == PlanCommits(planFile[1])
        queue == QueueFiles
        chunkSize == ChunkSize(Len(queue), cfg.totalDays * cfg.commitsPerDay,
                               cfg.maxFiles)
    IN /\ \A c \in 1..Len(cs) :
            /\ c < Len(cs) => Len(cs[c].files) = chunkSize
            /\ Len(cs[c].files) <= chunkSize
            /\ cs[c].files = SubSeq(queue, (c - 1) * chunkSize + 1,
                                    (c - 1) * chunkSize + Len(cs[c].files))
       /\ cfg.maxFiles = 0 => Flatten([c \in 1..Len(cs) |-> cs[c].files]) = queue

(* Three files in two slots, without maxFilesPerCommit: a chunk of two and a
   last chunk of one. *)
C29_Witness ==
  /\ PlanWritten
  /\ cfg.maxFiles = 0
  /\ cfg.totalDays * cfg.commitsPerDay = 2
  /\ Len(QueueFiles) = 3
  /\ Len(PlanCommits(planFile[1])) = 2
  /\ Len(PlanCommits(planFile[1])[1].files) = 2
  /\ Len(PlanCommits(planFile[1])[2].files) = 1

(* Plan q is plan p but for the message of the commit with the given id *)
OnlyMessageOf(p, q, id) ==
  /\ q.approved = p.approved
  /\ Len(q.days) = Len(p.days)
  /\ \A d \in 1..Len(p.days) :
       /\ q.days[d].day = p.days[d].day
       /\ Len(q.days[d].commits) = Len(p.days[d].commits)
       /\ \A c \in 1..Len(p.days[d].commits) :
            LET old == p.days[d].commits[c]
                new == q.days[d].commits[c]
            IN IF old.id = id
               THEN [new EXCEPT !.message = old.message] = old
               ELSE new = old

(* C30: the edit step of the review leaves the plan as it was, or changes
   the message of the one commit whose id was entered and nothing else: no
   other commit, no files list, no id, not the days and not the approved
   flag; an id that names no commit leaves the plan as it was; and the edit
   step itself writes nothing. *)
C30_ReviewEditFrame ==
  [][(pc = "S2.2" /\ pc' = "S2.4")
       => /\ \/ planData' = planData
             \/ \E id \in PlanIds(planData) : OnlyMessageOf(planData, planData', id)
          /\ OnlyMessageOf(planData, Reword(planData, NoSuchId, NewMessage), NoSuchId)
          /\ Reword(planData, NoSuchId, NewMessage) = planData
          /\ durable' = durable]_vars

(* A reworded commit in a plan of two commits or more. *)
C30_Witness ==
  /\ pc = "S2.4"
  /\ Len(PlanCommits(planData)) >= 2
  /\ RewordedCount(planData) = 1
  /\ planFile # <<>>
  /\ RewordedCount(planFile[1]) = 0

(* C31: one day per invocation. The day of an execution is fixed when it
   starts, as the persisted next.day, and stays fixed while it runs; every
   commit it starts, stages for or creates a revision of is a commit of
   that day; it creates a revision only while fewer than commitsPerDay were
   recorded in this invocation; and once the cursor has rolled over to the
   following day the invocation starts no further commit. *)
C31_OneDayPerInvocation ==
  [][/\ (curDay' # curDay /\ curDay' # 0)
          => curDay = 0 /\ curDay' = PersistedState.next.day
     /\ (curDay # 0 /\ curDay' # curDay) => pc' = "idle"
     /\ (pc = "loop" /\ pc' = "S3.C2")
          => /\ CurrentCommit.id[1] = curDay
             /\ stateData.next.day = curDay
             /\ PersistedState.next.day = curDay
             /\ commitsProcessed < cfg.commitsPerDay
     /\ (pc # "idle" /\ (wt' # wt \/ staged' # staged \/ history' # history))
          => CurrentCommit.id[1] = curDay
     /\ (history' # history)
          => /\ commitsProcessed < cfg.commitsPerDay
             /\ Len(history') = Len(history) + 1
     /\ (commitsProcessed' # commitsProcessed /\ pc' # "idle" /\ pc # "S3.1")
          => /\ commitsProcessed' = commitsProcessed + 1
             /\ Len(history) = attempt.revisions + 1]_vars

(* The cursor rolled over to a day of the plan during the invocation, which
   then ended its day. *)
C31_Witness ==
  /\ pc = "S3.ED"
  /\ commitsProcessed >= 1
  /\ stateData.next = [day |-> curDay + 1, index |-> 1]
  /\ FindDay(planData, curDay + 1) # <<>>
  /\ commitsProcessed < cfg.commitsPerDay

(* The files copied for commits that the operator skipped *)
SkipLeftovers == UNION {Range(PlanCommit(id).files) : id \in skipped}

(* C32: what the engine itself leaves in the target directory, its plan,
   state, preview and log files and the copies made for a skipped commit,
   never fails the clean-working-tree check of S3.1: an execution halts at
   S3.1 only for an old runtime, a non-empty index or a dirty file that is
   no leftover of a skip. *)
C32_ArtifactsDoNotBlock ==
  [][(pc = "S3.1" /\ pc' = "idle" /\ exit'.step = "S3.1")
       => \/ NodeTooOld(cfg.nodeMajor)
          \/ staged # {}
          \/ DirtyFiles \ SkipLeftovers # {}]_vars

====
